---- MODULE Spec2Model ----
(***************************************************************************)
(* Model of push_to_github.py: one sequential run of main() that resolves  *)
(* a GitHub token, checks the local repository, optionally creates the     *)
(* remote repository, configures the git remote and pushes.                *)
(*                                                                         *)
(* Text values that the program trims are sequences of chunks; the chunks  *)
(* " " and "\n" are whitespace.  Str joins a chunk sequence into a string. *)
(***************************************************************************)
EXTENDS Integers, Sequences, FiniteSets, TLC

\* Python's None
NONE == "<None>"

\* ---------------------------------------------------------------- bounds
\* number of set_remote calls explored by SpecRemote
MaxCalls == 2
\* number of pending entries a working tree may hold
MaxPending == 1

\* ------------------------------------------------------------ text layer
IsSpace(c) == c \in {" ", "\n"}

RECURSIVE LStrip(_)
LStrip(s) == IF s # <<>> /\ IsSpace(Head(s)) THEN LStrip(Tail(s)) ELSE s

RECURSIVE RStrip(_)
RStrip(s) ==
    IF s # <<>> /\ IsSpace(s[Len(s)]) THEN RStrip(SubSeq(s, 1, Len(s) - 1)) ELSE s

\* a strip that forgets the trailing side
Strip_LeftOnly(s) == LStrip(s)
\* str.strip()
Strip(s) == RStrip(LStrip(s))

RECURSIVE Str(_)
Str(s) == IF s = <<>> THEN "" ELSE Head(s) \o Str(Tail(s))

\* ------------------------------------------------------- input universes
\* raw token texts as an environment variable, gh or a terminal may hold them
RawTokens == { <<>>, <<" ">>, <<"tokA">>, <<" ", "tokB", "\n">> }

\* what `from env_loader import load_env; load_env()` does
LoaderBehaviours ==
    { [kind |-> "raise", val |-> <<>>] }
    \cup { [kind |-> "set", val |-> v] : v \in { <<" ">>, <<"tokL", "\n">> } }

\* what `gh auth token` does
GhBehaviours ==
    { [kind |-> "raise", val |-> <<>>], [kind |-> "nonzero", val |-> <<"tokG">>] }
    \cup { [kind |-> "stdout", val |-> v] : v \in { <<"\n">>, <<"tokG", "\n">> } }

Owners == { NONE, "bob" }
Repos == { NONE, "proj" }
Aliases == { "origin", "upstream" }
\* remote aliases given to main (the --remote-name default)
RunAliases == { "origin" }
Urls == { "https://github.com/bob/proj.git", "https://github.com/alice/proj.git" }
OldUrl == "https://github.com/old/old.git"
RootName == "workdir"
Branch == "main"

\* pending entries of `git status --porcelain`
Entries == { "?? new.txt" }
RECURSIVE SeqsUpTo(_, _)
SeqsUpTo(S, n) ==
    IF n = 0 THEN { <<>> }
    ELSE LET R == SeqsUpTo(S, n - 1)
         IN R \cup { Append(r, e) : r \in { q \in R : Len(q) = n - 1 }, e \in S }
Trees == SeqsUpTo(Entries, MaxPending)

\* stdout of `git status --porcelain`: one line per pending entry
PorcelainOut(tree) ==
    [ i \in 1 .. 2 * Len(tree) |-> IF i % 2 = 1 THEN tree[(i + 1) \div 2] ELSE "\n" ]

\* responses of POST /user/repos
CreateStatuses == { 201, 422, 403 }
CreateBodies ==
    { [empty |-> TRUE,  login |-> NONE,    clone_url |-> NONE],
      [empty |-> FALSE, login |-> "alice", clone_url |-> "https://github.com/alice/proj.git"],
      [empty |-> FALSE, login |-> NONE,    clone_url |-> "https://github.com/alice/proj.git"],
      [empty |-> FALSE, login |-> "alice", clone_url |-> NONE] }

\* responses of GET /user
UserStatuses == { 200, 401 }
UserLogins == { <<>>, <<" ">>, <<"carol">> }

VARIABLES
    args,        \* parsed command line (immutable)
    environ,     \* os.environ["GITHUB_TOKEN"]: <<>> unset, else <<raw text>>
    world,       \* what the collaborators will answer (immutable)
    gitDir,      \* root/.git exists
    remotes,     \* set of <<name, url>> of the local repository
    pc,          \* position of main
    token,       \* main's token
    repo_info,   \* main's repo_info
    owner,       \* main's owner
    remote_url,  \* main's remote_url
    calls,       \* external actions performed so far, in order
    stdout,      \* lines printed
    stderr,      \* warnings written
    outcome,     \* "running", "ok" or the error the run died of
    responses,   \* HTTP responses received so far (history)
    srHist       \* set_remote calls made so far (history)

vars == << args, environ, world, gitDir, remotes, pc, token, repo_info, owner,
           remote_url, calls, stdout, stderr, outcome, responses, srHist >>

\* main's `repo_info = None`
NoRepoInfo == [ kind |-> "None", empty |-> TRUE, login |-> NONE, clone_url |-> NONE ]

EnvGet(env) == IF env = <<>> THEN <<>> ELSE env[1]

Init ==
    /\ args \in [ repo : Repos, owner : Owners, remote_name : RunAliases,
                  skip_create : BOOLEAN, dry_run : BOOLEAN,
                  no_prompt_token : BOOLEAN ]
    /\ world \in [ env : { <<>> } \cup { <<v>> : v \in RawTokens },
                   loader : LoaderBehaviours, gh : GhBehaviours,
                   isatty : BOOLEAN, typed : RawTokens, tree : Trees ]
    /\ environ = world.env
    /\ gitDir \in BOOLEAN
    /\ remotes \in { {}, { <<"origin", OldUrl>> } }
    /\ remotes # {} => gitDir
    /\ pc = "start"
    /\ token = NONE
    /\ repo_info = NoRepoInfo
    /\ owner = NONE
    /\ remote_url = NONE
    /\ calls = <<>>
    /\ stdout = <<>>
    /\ stderr = <<>>
    /\ outcome = "running"
    /\ responses = <<>>
    /\ srHist = <<>>


\* ------------------------------------------------------------- helpers
\* Python truthiness of an optional string
Truthy(s) == s # NONE /\ s # ""

\* repo_name = args.repo or root.name
RepoName(a) == IF Truthy(a.repo) THEN a.repo ELSE RootName

\* allow_prompt = (not args.no_prompt_token)
AllowPrompt(a) == ~a.no_prompt_token

Fail(kind) ==
    /\ pc' = "done"
    /\ outcome' = kind

Call(c) == calls' = Append(calls, c)

\* a request that drops the credential
Bearer_Empty(t) == ""
\* lines 84-87 and 100-103: "Authorization": f"Bearer {token}"
Bearer(t) == t
Call2(c, d) == calls' = calls \o << c, d >>

\* ------------------------------------------------- main, lines 140-147
\* a main that resolves the token even when creation is skipped
NeedsToken_Always(a) == TRUE
\* a main that never resolves a token
NeedsToken_Never(a) == FALSE
\* `if not args.skip_create:` guarding get_github_token
NeedsToken(a) == ~a.skip_create

Start ==
    /\ pc = "start"
    /\ pc' = IF NeedsToken(args) THEN "token_env" ELSE "ensure_git_repo"
    /\ UNCHANGED << args, environ, world, gitDir, remotes, token, repo_info,
                    owner, remote_url, calls, stdout, stderr, outcome, responses, srHist >>

\* ------------------------------------------ get_github_token, lines 57-79
\* lines 59-61: the environment variable
TokenFromEnv ==
    /\ pc = "token_env"
    /\ Call(<< "environ.get", "GITHUB_TOKEN" >>)
    /\ LET t == Str(Strip(EnvGet(environ)))
       IN IF Truthy(t)
          THEN token' = t /\ pc' = "ensure_git_repo"
          ELSE token' = token /\ pc' = "token_shared"
    /\ UNCHANGED << args, environ, world, gitDir, remotes, repo_info, owner,
                    remote_url, stdout, stderr, outcome, responses, srHist >>

\* try_load_shared_env, lines 34-42: any failure is swallowed
LoadSharedEnv(env, loader) ==
    IF loader.kind = "set" THEN << loader.val >> ELSE env

\* lines 63-66: shared loader, then the environment variable again
TokenFromShared ==
    /\ pc = "token_shared"
    /\ Call2(<< "load_env" >>, << "environ.get", "GITHUB_TOKEN" >>)
    /\ environ' = LoadSharedEnv(environ, world.loader)
    /\ LET t == Str(Strip(EnvGet(environ')))
       IN IF Truthy(t)
          THEN token' = t /\ pc' = "ensure_git_repo"
          ELSE token' = token /\ pc' = "token_gh"
    /\ UNCHANGED << args, world, gitDir, remotes, repo_info, owner,
                    remote_url, stdout, stderr, outcome, responses, srHist >>

\* a helper that never finds a token
TryGetTokenFromGh_Drop(gh) == <<>>
\* try_get_token_from_gh, lines 45-54: the trimmed stdout, or None
TryGetTokenFromGh(gh) ==
    IF gh.kind # "stdout" THEN <<>> ELSE Strip(gh.val)

\* lines 68-71: the gh helper; a token found is mirrored into the environment
TokenFromGh ==
    /\ pc = "token_gh"
    /\ LET t == TryGetTokenFromGh(world.gh)
       IN IF Truthy(Str(t))
          THEN /\ token' = Str(t)
               /\ environ' = << t >>
               /\ Call2(<< "gh", "auth", "token" >>, << "environ.set", "GITHUB_TOKEN" >>)
               /\ pc' = "ensure_git_repo"
          ELSE /\ token' = token
               /\ environ' = environ
               /\ Call(<< "gh", "auth", "token" >>)
               /\ pc' = "token_prompt"
    /\ UNCHANGED << args, world, gitDir, remotes, repo_info, owner,
                    remote_url, stdout, stderr, outcome, responses, srHist >>

\* a resolver that prompts whenever the terminal is interactive
MayPrompt_IgnoreFlag(allow_prompt, isatty) == isatty
\* line 73: `if allow_prompt and sys.stdin.isatty():`
MayPrompt(allow_prompt, isatty) == allow_prompt /\ isatty

\* lines 73-79: the masked prompt, else the credential-missing error
TokenFromPrompt ==
    /\ pc = "token_prompt"
    /\ IF MayPrompt(AllowPrompt(args), world.isatty)
       THEN LET t == Strip(world.typed)
            IN IF Truthy(Str(t))
               THEN /\ token' = Str(t)
                    /\ environ' = << t >>
                    /\ Call2(<< "getpass" >>, << "environ.set", "GITHUB_TOKEN" >>)
                    /\ pc' = "ensure_git_repo"
                    /\ outcome' = outcome
               ELSE /\ token' = token
                    /\ environ' = environ
                    /\ Call(<< "getpass" >>)
                    /\ Fail("CredentialMissingError")
       ELSE /\ token' = token
            /\ environ' = environ
            /\ calls' = calls
            /\ Fail("CredentialMissingError")
    /\ UNCHANGED << args, world, gitDir, remotes, repo_info, owner,
                    remote_url, stdout, stderr, responses, srHist >>

\* -------------------------------------------------- git steps of main
\* run_cmd, lines 14-19: a non-zero exit raises
RunCmdRaises(returncode) == returncode # 0

\* ensure_git_repo, lines 22-25
EnsureGitRepo ==
    /\ pc = "ensure_git_repo"
    /\ IF ~gitDir
       THEN \E rc \in { 0, 1 } :
              /\ Call(<< "git", "init" >>)
              /\ IF RunCmdRaises(rc)
                 THEN Fail("ExecutionError") /\ gitDir' = gitDir
                 ELSE pc' = "ensure_clean_tree" /\ gitDir' = TRUE /\ outcome' = outcome
       ELSE /\ pc' = "ensure_clean_tree"
            /\ UNCHANGED << calls, gitDir, outcome >>
    /\ UNCHANGED << args, environ, world, remotes, token, repo_info, owner,
                    remote_url, stdout, stderr, responses, srHist >>

\* a clean check that never objects
TreeIsDirty_Never(status) == FALSE
\* line 31: `if status:` on the trimmed output of git status --porcelain
TreeIsDirty(status) == Str(status) # ""

\* ensure_clean_tree, lines 28-32
EnsureCleanTree ==
    /\ pc = "ensure_clean_tree"
    /\ Call(<< "git", "status", "--porcelain" >>)
    /\ \E rc \in { 0, 1 } :
         IF RunCmdRaises(rc)
         THEN Fail("ExecutionError")
         ELSE IF TreeIsDirty(Strip(PorcelainOut(world.tree)))
              THEN Fail("WorkingTreeDirtyError")
              ELSE pc' = "create_repo" /\ outcome' = outcome
    /\ UNCHANGED << args, environ, world, gitDir, remotes, token, repo_info,
                    owner, remote_url, stdout, stderr, responses, srHist >>


\* ------------------------------------------------ create_repo, lines 98-116
CreateResponses ==
    { [ status |-> 201, body |-> b ] : b \in CreateBodies }
    \cup { [ status |-> st, body |-> CHOOSE b \in CreateBodies : b.empty ] :
             st \in CreateStatuses \ { 201 } }

\* a client that takes every answer for a success
CreateResult_AnyStatus(resp) ==
    [ err |-> NONE, warn |-> FALSE,
      info |-> [ kind |-> "dict", empty |-> resp.body.empty,
                 login |-> resp.body.login, clone_url |-> resp.body.clone_url ] ]
\* a client for which 422 is as fatal as any other failure
CreateResult_422Fatal(resp) ==
    IF resp.status = 201
    THEN [ err |-> NONE, warn |-> FALSE,
           info |-> [ kind |-> "dict", empty |-> resp.body.empty,
                      login |-> resp.body.login, clone_url |-> resp.body.clone_url ] ]
    ELSE [ err |-> "RepositoryCreationError", warn |-> FALSE, info |-> NoRepoInfo ]
\* lines 110-116: 201 returns the body, 422 warns and returns None, else raises
CreateResult(resp) ==
    IF resp.status = 201
    THEN [ err |-> NONE, warn |-> FALSE,
           info |-> [ kind |-> "dict", empty |-> resp.body.empty,
                      login |-> resp.body.login, clone_url |-> resp.body.clone_url ] ]
    ELSE IF resp.status = 422
         THEN [ err |-> NONE, warn |-> TRUE, info |-> NoRepoInfo ]
         ELSE [ err |-> "RepositoryCreationError", warn |-> FALSE, info |-> NoRepoInfo ]

\* main, lines 152-154
CreateRepo ==
    /\ pc = "create_repo"
    /\ IF ~args.skip_create
       THEN \E resp \in CreateResponses :
              LET r == CreateResult(resp)
              IN /\ Call(<< "POST", "/user/repos", Bearer(token) >>)
                 /\ stderr' = IF r.warn THEN Append(stderr, << "warning", resp.status >>)
                              ELSE stderr
                 /\ repo_info' = r.info
                 /\ responses' = Append(responses, [ req |-> "POST /user/repos",
                                                     status |-> resp.status ])
                 /\ IF r.err # NONE
                    THEN Fail(r.err)
                    ELSE pc' = "determine_url" /\ outcome' = outcome
       ELSE /\ pc' = "determine_url"
            /\ repo_info' = NoRepoInfo
            /\ UNCHANGED << calls, stderr, outcome, responses >>
    /\ UNCHANGED << args, environ, world, gitDir, remotes, token, owner,
                    remote_url, stdout, srHist >>

\* ------------------------------------------------- main, lines 156-166
\* `if repo_info:` a dict that is not empty
DictTruthy(d) == d.kind = "dict" /\ ~d.empty

\* a URL builder that swaps owner and repository
SynthUrl_Swapped(o, r) == "https://github.com/" \o r \o "/" \o o \o ".git"
\* line 166
SynthUrl(o, r) == "https://github.com/" \o o \o "/" \o r \o ".git"

\* an owner choice that lets --owner win over the creation response
OwnerFromInfo_ArgFirst(info, argOwner) ==
    IF Truthy(argOwner) THEN argOwner
    ELSE IF info.login # NONE THEN info.login ELSE argOwner
\* line 158: repo_info.get("owner", {}).get("login", owner)
OwnerFromInfo(info, argOwner) ==
    IF info.login # NONE THEN info.login ELSE argOwner

\* a lookup guard that asks GitHub even when --owner is given
WantsLogin_Always(o, t) == Truthy(t)
\* line 161: `if not owner and token:`
WantsLogin(o, t) == ~Truthy(o) /\ Truthy(t)

\* get_authed_login, lines 82-95: the trimmed login, or an error
AuthedLogin(status, login) ==
    IF status # 200 THEN [ err |-> "AuthLookupError", login |-> NONE ]
    ELSE IF Str(Strip(login)) = "" THEN [ err |-> "AuthLookupError", login |-> NONE ]
    ELSE [ err |-> NONE, login |-> Str(Strip(login)) ]

DetermineUrl ==
    /\ pc = "determine_url"
    /\ IF DictTruthy(repo_info)
       THEN /\ owner' = OwnerFromInfo(repo_info, args.owner)
            /\ remote_url' = repo_info.clone_url
            /\ pc' = "set_remote"
            /\ UNCHANGED << calls, outcome, responses >>
       ELSE IF WantsLogin(args.owner, token)
            THEN \E st \in UserStatuses, lg \in UserLogins :
                   LET r == AuthedLogin(st, lg)
                   IN /\ Call(<< "GET", "/user", Bearer(token) >>)
                      /\ responses' = Append(responses, [ req |-> "GET /user",
                                                          status |-> st ])
                      /\ IF r.err # NONE
                         THEN /\ Fail(r.err)
                              /\ owner' = args.owner
                              /\ remote_url' = remote_url
                         ELSE /\ owner' = r.login
                              /\ remote_url' = SynthUrl(r.login, RepoName(args))
                              /\ pc' = "set_remote"
                              /\ outcome' = outcome
            ELSE /\ owner' = args.owner
                 /\ calls' = calls
                 /\ responses' = responses
                 /\ IF ~Truthy(args.owner)
                    THEN Fail("OwnerUnresolvedError") /\ remote_url' = remote_url
                    ELSE /\ remote_url' = SynthUrl(args.owner, RepoName(args))
                         /\ pc' = "set_remote"
                         /\ outcome' = outcome
    /\ UNCHANGED << args, environ, world, gitDir, remotes, token, repo_info,
                    stdout, stderr, srHist >>

\* ------------------------------------------------ set_remote, lines 119-125
\* stdout of `git remote`, split into lines
RemoteNames(rem) == { r[1] : r \in rem }

\* git remote add: refuses a name that exists
GitRemoteAdd(rem, n, u) ==
    IF n \in RemoteNames(rem) THEN [ rc |-> 3, remotes |-> rem ]
    ELSE [ rc |-> 0, remotes |-> rem \cup { << n, u >> } ]

\* git remote set-url: refuses a name that does not exist
GitRemoteSetUrl(rem, n, u) ==
    IF n \notin RemoteNames(rem) THEN [ rc |-> 2, remotes |-> rem ]
    ELSE [ rc |-> 0, remotes |-> { r \in rem : r[1] # n } \cup { << n, u >> } ]

\* a set_remote that always adds
UsesSetUrl_Never(n, names) == FALSE
\* line 122: `if remote_name in remotes:`
UsesSetUrl(n, names) == n \in names

\* set_remote(root, remote_name, remote_url); rc1 and rc2 are the exit codes
\* the environment forces on `git remote` and on the add/set-url command
SetRemote(rem, n, u, rc1, rc2) ==
    LET list == << "git", "remote" >>
        sub == IF UsesSetUrl(n, RemoteNames(rem)) THEN "set-url" ELSE "add"
        res == IF sub = "set-url" THEN GitRemoteSetUrl(rem, n, u)
               ELSE GitRemoteAdd(rem, n, u)
    IN IF RunCmdRaises(rc1)
       THEN [ err |-> "ExecutionError", cmds |-> << list >>, sub |-> NONE,
              remotes |-> rem ]
       ELSE IF u = NONE
       THEN [ err |-> "TypeError", cmds |-> << list >>, sub |-> NONE,
              remotes |-> rem ]
       ELSE IF RunCmdRaises(rc2) \/ RunCmdRaises(res.rc)
       THEN [ err |-> "ExecutionError",
              cmds |-> << list, << "git", "remote", sub, n, u >> >>, sub |-> sub,
              remotes |-> rem ]
       ELSE [ err |-> NONE,
              cmds |-> << list, << "git", "remote", sub, n, u >> >>, sub |-> sub,
              remotes |-> res.remotes ]

SrEntry(n, u, r, before) ==
    [ name |-> n, url |-> u, sub |-> r.sub, err |-> r.err,
      before |-> before, after |-> r.remotes ]

\* main, line 168
SetRemoteStep ==
    /\ pc = "set_remote"
    /\ \E rc1 \in { 0, 1 }, rc2 \in { 0, 1 } :
         LET r == SetRemote(remotes, args.remote_name, remote_url, rc1, rc2)
         IN /\ calls' = calls \o r.cmds
            /\ remotes' = r.remotes
            /\ srHist' = Append(srHist, SrEntry(args.remote_name, remote_url, r, remotes))
            /\ IF r.err # NONE
               THEN Fail(r.err)
               ELSE pc' = "finish" /\ outcome' = outcome
    /\ UNCHANGED << args, environ, world, gitDir, token, repo_info, owner,
                    remote_url, stdout, stderr, responses >>

\* ------------------------------------------------- main, lines 170-175
\* a push with remote and branch swapped
PushCmd_Swapped(n, b) == << "git", "push", "-u", b, n >>
\* line 174: ["git", "push", "-u", args.remote_name, args.branch]
PushCmd(n, b) == << "git", "push", "-u", n, b >>

\* a main that pushes even on a dry run
SkipsPush_Never(a) == FALSE
\* line 170: `if args.dry_run:`
SkipsPush(a) == a.dry_run

Finish ==
    /\ pc = "finish"
    /\ IF SkipsPush(args)
       THEN /\ stdout' = Append(stdout, << "plan", remote_url, Branch, args.remote_name >>)
            /\ calls' = calls
            /\ pc' = "done"
            /\ outcome' = "ok"
       ELSE \E rc \in { 0, 1 } :
              /\ Call(PushCmd(args.remote_name, Branch))
              /\ pc' = "done"
              /\ IF RunCmdRaises(rc)
                 THEN outcome' = "ExecutionError" /\ stdout' = stdout
                 ELSE /\ outcome' = "ok"
                      /\ stdout' = Append(stdout, << "pushed", remote_url, Branch >>)
    /\ UNCHANGED << args, environ, world, gitDir, remotes, token, repo_info,
                    owner, remote_url, stderr, responses, srHist >>

Next ==
    \/ Start
    \/ TokenFromEnv
    \/ TokenFromShared
    \/ TokenFromGh
    \/ TokenFromPrompt
    \/ EnsureGitRepo
    \/ EnsureCleanTree
    \/ CreateRepo
    \/ DetermineUrl
    \/ SetRemoteStep
    \/ Finish

Spec == Init /\ [][Next]_vars

TypeOK ==
    /\ pc \in { "start", "token_env", "token_shared", "token_gh", "token_prompt",
                "ensure_git_repo", "ensure_clean_tree", "create_repo",
                "determine_url", "set_remote", "finish", "done", "lib" }
    /\ (outcome = "running") = (pc # "done")

\* --------------------------------------------- set_remote as a library call
\* local repositories: at most one URL per remote name
RemoteStores == { { << a, OldUrl >> : a \in D } : D \in SUBSET Aliases }

InitRemote ==
    /\ args = [ repo |-> "proj", owner |-> "bob", remote_name |-> "origin",
                skip_create |-> TRUE, dry_run |-> TRUE, no_prompt_token |-> TRUE ]
    /\ world = [ env |-> <<>>, loader |-> [kind |-> "raise", val |-> <<>>],
                 gh |-> [kind |-> "raise", val |-> <<>>], isatty |-> FALSE,
                 typed |-> <<>>, tree |-> <<>> ]
    /\ environ = <<>>
    /\ gitDir = TRUE
    /\ remotes \in RemoteStores
    /\ pc = "lib"
    /\ token = NONE
    /\ repo_info = NoRepoInfo
    /\ owner = NONE
    /\ remote_url = NONE
    /\ calls = <<>>
    /\ stdout = <<>>
    /\ stderr = <<>>
    /\ outcome = "running"
    /\ responses = <<>>
    /\ srHist = <<>>

\* one call set_remote(root, n, u) against the current repository
SetRemoteCall ==
    /\ pc = "lib"
    /\ Len(srHist) < MaxCalls
    /\ \E n \in Aliases, u \in Urls, rc1 \in { 0, 1 }, rc2 \in { 0, 1 } :
         LET r == SetRemote(remotes, n, u, rc1, rc2)
         IN /\ calls' = calls \o r.cmds
            /\ remotes' = r.remotes
            /\ srHist' = Append(srHist, SrEntry(n, u, r, remotes))
    /\ UNCHANGED << args, environ, world, gitDir, pc, token, repo_info, owner,
                    remote_url, stdout, stderr, outcome, responses >>

NextRemote == SetRemoteCall

SpecRemote == InitRemote /\ [][NextRemote]_vars


\* ====================================================== verified properties
\* kinds of external action in `calls`
IsPost(c) == c[1] = "POST"
IsGet(c) == c[1] = "GET"
IsInit(c) == c[1] = "git" /\ c[2] = "init"
IsStatus(c) == c[1] = "git" /\ c[2] = "status"
IsPush(c) == c[1] = "git" /\ c[2] = "push"
IsRemoteWrite(c) == c[1] = "git" /\ c[2] = "remote" /\ Len(c) > 2
IsCredentialSource(c) ==
    c[1] \in { "environ.get", "load_env", "gh", "getpass" }
IsEnvWrite(c) == c[1] = "environ.set"

Some(P(_)) == \E i \in 1 .. Len(calls) : P(calls[i])
NoneAfter(i, P(_)) == \A j \in (i + 1) .. Len(calls) : ~P(calls[j])

\* git status --porcelain has run and exited zero
StatusReturned ==
    \E i \in 1 .. Len(calls) :
        IsStatus(calls[i]) /\ ~(i = Len(calls) /\ outcome = "ExecutionError")

\* the last set_remote call of the run succeeded
RemoteConfigured == srHist # <<>> /\ srHist[Len(srHist)].err = NONE

UrlsOf(rem, n) == { r[2] : r \in { q \in rem : q[1] = n } }

\* C1: if git status --porcelain returns non-empty output the run dies of the
\* working-tree-dirty error and issues no POST /user/repos, GET /user,
\* remote add/set-url or push afterwards; if the output is empty the check
\* passes and the run goes on to the creation step.
C1_DirtyTreeStopsRun ==
    StatusReturned =>
        IF world.tree # <<>>
        THEN /\ pc = "done"
             /\ outcome = "WorkingTreeDirtyError"
             /\ \A i \in 1 .. Len(calls) :
                  IsStatus(calls[i]) =>
                    /\ NoneAfter(i, IsPost)
                    /\ NoneAfter(i, IsGet)
                    /\ NoneAfter(i, IsRemoteWrite)
                    /\ NoneAfter(i, IsPush)
        ELSE /\ outcome # "WorkingTreeDirtyError"
             /\ pc \in { "create_repo", "determine_url", "set_remote", "finish", "done" }
             /\ (pc = "done" /\ IsStatus(calls[Len(calls)])) =>
                  outcome = "OwnerUnresolvedError"

C1_Witness ==
    /\ world.tree # <<>>
    /\ StatusReturned
    /\ outcome = "WorkingTreeDirtyError"
    /\ token # NONE

\* C2 as stated: in a run without --skip-create no credential source is
\* consulted before git status has passed, and on a dirty tree no credential
\* source is consulted and the environment is not written.
C2_CredentialAfterCleanCheck ==
    /\ \A i \in 1 .. Len(calls) :
         IsCredentialSource(calls[i]) =>
            \E j \in 1 .. (i - 1) : IsStatus(calls[j])
    /\ world.tree # <<>> => ~Some(IsCredentialSource) /\ ~Some(IsEnvWrite)

\* C2 amended: in a run without --skip-create the credential is resolved
\* first, before git init and git status; POST /user/repos is issued only
\* after the credential is resolved and git status has passed; on a dirty tree
\* the credential sources are consulted but no creation request is issued.
C2_CredentialBeforeGitCreateAfter ==
    ~args.skip_create =>
        /\ \A i \in 1 .. Len(calls) :
             IsCredentialSource(calls[i]) \/ IsEnvWrite(calls[i]) =>
                \A j \in 1 .. (i - 1) : ~IsInit(calls[j]) /\ ~IsStatus(calls[j])
        /\ \A j \in 1 .. Len(calls) :
             IsInit(calls[j]) \/ IsStatus(calls[j]) =>
                /\ IsCredentialSource(calls[1])
                /\ Truthy(token)
        /\ \A k \in 1 .. Len(calls) :
             IsPost(calls[k]) =>
                /\ Truthy(token)
                /\ calls[k][3] = token
                /\ \E j \in 1 .. (k - 1) : IsStatus(calls[j])
        /\ world.tree # <<>> /\ StatusReturned =>
                Some(IsCredentialSource) /\ ~Some(IsPost)

C2_Witness ==
    /\ ~args.skip_create
    /\ world.tree # <<>>
    /\ outcome = "WorkingTreeDirtyError"
    /\ Some(IsEnvWrite)

\* the creation call answered 201 with a body carrying owner.login and clone_url
Created201Full ==
    /\ \E i \in 1 .. Len(responses) :
         responses[i].req = "POST /user/repos" /\ responses[i].status = 201
    /\ ~repo_info.empty
    /\ repo_info.login # NONE
    /\ repo_info.clone_url # NONE

\* C3: after a 201 whose body carries owner.login and clone_url the remote is
\* configured to exactly that clone_url and the owner in effect is the one of
\* the response, whatever --owner says; GET /user is never issued.
C3_CreatedRepoWins ==
    Created201Full =>
        /\ ~Some(IsGet)
        /\ pc \in { "set_remote", "finish", "done" } =>
             /\ owner = repo_info.login
             /\ remote_url = repo_info.clone_url
        /\ \A i \in 1 .. Len(calls) :
             IsRemoteWrite(calls[i]) =>
                calls[i][4] = args.remote_name /\ calls[i][5] = repo_info.clone_url
        /\ RemoteConfigured =>
             UrlsOf(remotes, args.remote_name) = { repo_info.clone_url }

C3_Witness ==
    /\ Created201Full
    /\ args.owner = "bob"
    /\ owner = "alice"
    /\ RemoteConfigured
    /\ pc = "done"
    /\ outcome = "ok"

\* the creation call answered 422
Created422 ==
    \E i \in 1 .. Len(responses) :
        responses[i].req = "POST /user/repos" /\ responses[i].status = 422

\* C4: a 422 from the creation call raises nothing: a warning is written to
\* the error stream, create_repo returns None and the run goes on to owner
\* resolution (--owner, else GET /user); the remote URL is synthesized as
\* https://github.com/<owner>/<repo>.git.
C4_AlreadyExistsFallsThrough ==
    Created422 =>
        /\ outcome # "RepositoryCreationError"
        /\ Len(stderr) = 1 /\ stderr[1][1] = "warning"
        /\ repo_info = NoRepoInfo
        /\ pc # "create_repo"
        /\ Truthy(args.owner) => ~Some(IsGet)
        /\ (~Truthy(args.owner) /\ pc # "determine_url") => Some(IsGet)
        /\ pc \in { "set_remote", "finish" } \/ (pc = "done" /\ srHist # <<>>) =>
             /\ owner = IF Truthy(args.owner) THEN args.owner ELSE "carol"
             /\ remote_url =
                  "https://github.com/" \o owner \o "/" \o
                  (IF args.repo = NONE THEN RootName ELSE args.repo) \o ".git"
             /\ \A i \in 1 .. Len(calls) :
                  IsRemoteWrite(calls[i]) => calls[i][5] = remote_url

C4_Witness ==
    /\ Created422
    /\ ~Truthy(args.owner)
    /\ Some(IsGet)
    /\ RemoteConfigured
    /\ remote_url = "https://github.com/carol/proj.git"

\* C5: with --skip-create, --owner bob and repository name proj on a clean
\* tree the remote is configured to exactly https://github.com/bob/proj.git
\* and POST /user/repos is never issued.
C5_SkipCreateSynthesizesUrl ==
    (args.skip_create /\ args.owner = "bob" /\ args.repo = "proj") =>
        /\ ~Some(IsPost)
        /\ \A i \in 1 .. Len(calls) :
             IsRemoteWrite(calls[i]) =>
                calls[i][5] = "https://github.com/bob/proj.git"
        /\ (world.tree = <<>> /\ RemoteConfigured) =>
             UrlsOf(remotes, args.remote_name) = { "https://github.com/bob/proj.git" }

C5_Witness ==
    /\ args.skip_create /\ args.owner = "bob" /\ args.repo = "proj"
    /\ world.tree = <<>>
    /\ RemoteConfigured
    /\ << "origin", "https://github.com/bob/proj.git" >> \in remotes
    /\ outcome = "ok"


\* C6: with --dry-run, once the earlier steps have passed the named remote
\* points at the resolved URL, git push is never invoked, the plan line
\* (URL, branch, remote) is printed and the run ends with status zero.
C6_DryRunStopsBeforePush ==
    args.dry_run =>
        /\ ~Some(IsPush)
        /\ RemoteConfigured =>
             /\ UrlsOf(remotes, args.remote_name) = { remote_url }
             /\ IsRemoteWrite(calls[Len(calls)])
             /\ calls[Len(calls)][4] = args.remote_name
             /\ calls[Len(calls)][5] = remote_url
             /\ pc \in { "finish", "done" }
             /\ pc = "done" =>
                  /\ outcome = "ok"
                  /\ stdout = << << "plan", remote_url, "main", args.remote_name >> >>

C6_Witness ==
    /\ args.dry_run
    /\ pc = "done"
    /\ RemoteConfigured
    /\ srHist[1].sub = "set-url"
    /\ stdout # <<>>

IsLoad(c) == c[1] = "load_env"
IsGh(c) == c[1] = "gh"
IsGetpass(c) == c[1] = "getpass"

\* what each source holds, read off the environment the run started in
EnvYields == Str(Strip(EnvGet(world.env))) # ""
SharedYields ==
    IF world.loader.kind = "set" THEN Str(Strip(world.loader.val)) # ""
    ELSE EnvYields
GhYields == world.gh.kind = "stdout" /\ Str(Strip(world.gh.val)) # ""

Count(P(_)) == Cardinality({ i \in 1 .. Len(calls) : P(calls[i]) })

\* C7: the sources are consulted in the order environment variable, shared
\* loader (then the variable again), gh helper, prompt, and a source is
\* consulted only if every earlier one yielded no non-empty token; with a
\* non-empty token in the variable none of loader, gh and prompt is invoked.
C7_ShortCircuitChain ==
    /\ Some(IsLoad) => ~EnvYields
    /\ Some(IsGh) => ~EnvYields /\ ~SharedYields
    /\ Some(IsGetpass) => ~EnvYields /\ ~SharedYields /\ ~GhYields
    /\ EnvYields => ~Some(IsLoad) /\ ~Some(IsGh) /\ ~Some(IsGetpass)
    /\ Count(IsLoad) <= 1 /\ Count(IsGh) <= 1 /\ Count(IsGetpass) <= 1
    /\ Some(IsCredentialSource) => calls[1] = << "environ.get", "GITHUB_TOKEN" >>
    /\ \A i \in 1 .. Len(calls), j \in 1 .. Len(calls) :
         i < j =>
            /\ IsLoad(calls[j]) => ~IsGh(calls[i]) /\ ~IsGetpass(calls[i])
            /\ IsGh(calls[j]) => Some(IsLoad) /\ ~IsGetpass(calls[i])
            /\ IsGetpass(calls[j]) => Some(IsLoad) /\ Some(IsGh)

C7_Witness ==
    /\ Some(IsGetpass)
    /\ token = "tokB"
    /\ world.gh.kind = "stdout"
    /\ world.loader.kind = "set"

\* neither the variable, nor the shared loader, nor gh holds a token
NoTokenObtainable == ~EnvYields /\ ~SharedYields /\ ~GhYields

\* C8 as stated: with --no-prompt-token and no token in the variable, the
\* shared loader or gh, the run fails with the credential-missing error, never
\* prompts, and issues no creation request, remote configuration or push.
C8_NoPromptAlwaysFails ==
    (args.no_prompt_token /\ NoTokenObtainable) =>
        /\ pc = "done" => outcome = "CredentialMissingError"
        /\ ~Some(IsGetpass)
        /\ ~Some(IsPost) /\ ~Some(IsRemoteWrite) /\ ~Some(IsPush)

\* C8 amended: in a run without --skip-create, with --no-prompt-token and no
\* token in the variable, the shared loader or gh, the run fails with the
\* credential-missing error, never prompts (interactive terminal or not), and
\* issues no creation request, remote configuration or push.
C8_NoPromptFailsUnlessSkipCreate ==
    (~args.skip_create /\ args.no_prompt_token /\ NoTokenObtainable) =>
        /\ pc \in { "start", "token_env", "token_shared", "token_gh",
                    "token_prompt", "done" }
        /\ pc = "done" => outcome = "CredentialMissingError"
        /\ token = NONE
        /\ ~Some(IsGetpass)
        /\ ~Some(IsPost) /\ ~Some(IsRemoteWrite) /\ ~Some(IsPush)
        /\ \A i \in 1 .. Len(calls) : IsCredentialSource(calls[i])

C8_Witness ==
    /\ ~args.skip_create /\ args.no_prompt_token /\ NoTokenObtainable
    /\ world.isatty
    /\ Str(Strip(world.typed)) # ""
    /\ outcome = "CredentialMissingError"

\* C9: after set_remote(alias, U1) has succeeded, set_remote(alias, U2) with
\* U2 # U1 issues `remote set-url` and never `remote add`; when it succeeds
\* the repository has exactly one remote named alias, pointing at U2, and the
\* remotes of other names are as they were.
C9_AddThenUpdate ==
    \A i \in 1 .. (Len(srHist) - 1) :
        LET a == srHist[i]
            b == srHist[i + 1]
        IN (a.err = NONE /\ b.name = a.name /\ b.url # a.url) =>
              /\ b.sub # "add"
              /\ b.before = a.after
              /\ b.err = NONE =>
                   /\ b.sub = "set-url"
                   /\ { r \in b.after : r[1] = b.name } = { << b.name, b.url >> }
                   /\ { r \in b.after : r[1] # b.name } =
                        { r \in a.after : r[1] # b.name }
                   /\ i + 1 = Len(srHist) =>
                        /\ remotes = b.after
                        /\ calls[Len(calls)] =
                             << "git", "remote", "set-url", b.name, b.url >>

C9_Witness ==
    /\ Len(srHist) = 2
    /\ srHist[1].err = NONE /\ srHist[2].err = NONE
    /\ srHist[1].sub = "add" /\ srHist[2].sub = "set-url"
    /\ srHist[1].name = srHist[2].name
    /\ srHist[1].url # srHist[2].url
    /\ << srHist[2].name, srHist[2].url >> \in remotes
    /\ Cardinality(remotes) = 2

Failed == outcome \notin { "running", "ok" }

BadResponse(req, good) ==
    \E i \in 1 .. Len(responses) :
        responses[i].req = req /\ responses[i].status \notin good

C10_FailedRunIsOver ==
    /\ Failed =>
         /\ pc = "done"
         /\ stdout = <<>>
         /\ Some(IsPush) => outcome = "ExecutionError" /\ IsPush(calls[Len(calls)])
    /\ outcome = "ExecutionError" => calls[Len(calls)][1] = "git"
    /\ outcome \in { "WorkingTreeDirtyError", "CredentialMissingError",
                     "RepositoryCreationError", "AuthLookupError",
                     "OwnerUnresolvedError" } =>
         ~Some(IsRemoteWrite) /\ ~Some(IsPush) /\ srHist = <<>>
    /\ outcome = "CredentialMissingError" =>
         \A i \in 1 .. Len(calls) : IsCredentialSource(calls[i])
    /\ BadResponse("POST /user/repos", { 201, 422 }) =>
         /\ outcome = "RepositoryCreationError"
         /\ IsPost(calls[Len(calls)])
    /\ BadResponse("GET /user", { 200 }) =>
         /\ outcome = "AuthLookupError"
         /\ IsGet(calls[Len(calls)])
    /\ Some(IsPush) =>
         /\ ~args.skip_create => Truthy(token) /\ Some(IsPost)
         /\ gitDir
         /\ StatusReturned /\ world.tree = <<>>
         /\ ~BadResponse("POST /user/repos", { 201, 422 })
         /\ ~BadResponse("GET /user", { 200 })
         /\ RemoteConfigured
         /\ remote_url # NONE
         /\ Count(IsPush) = 1

\* C10: every step is fatal on error: a failed step (command exit, dirty
\* tree, missing credential, creation status other than 201/422, identity
\* lookup failure, unresolved owner) ends the run in failure and nothing is
\* done afterwards; git push happens only when every preceding step
\* succeeded, and a creation status other than 201/422 is followed by neither
\* remote configuration nor push.
C10_EveryStepFatal ==
    /\ []C10_FailedRunIsOver
    /\ [][Failed => (Failed' /\ calls' = calls /\ remotes' = remotes
                     /\ stdout' = stdout /\ environ' = environ)]_vars

C10_Witness ==
    /\ BadResponse("POST /user/repos", { 201, 422 })
    /\ outcome = "RepositoryCreationError"
    /\ Truthy(args.owner)


\* creation gave main no descriptor: it was skipped or answered 422
NoDescriptor ==
    /\ pc \in { "set_remote", "finish", "done" }
    /\ args.skip_create \/ Created422
    /\ outcome \notin { "ExecutionError", "WorkingTreeDirtyError",
                        "CredentialMissingError" } \/ srHist # <<>>

\* C11 as stated: without a descriptor, --owner is used and GET /user is not
\* issued; else, only with a credential, the authenticated login is looked up
\* and used; whenever neither gives an owner the run fails with the
\* owner-unresolved error before any remote configuration or push.
C11_UnresolvedOwnerError ==
    (NoDescriptor /\ ~Truthy(owner)) =>
        /\ outcome = "OwnerUnresolvedError"
        /\ ~Some(IsRemoteWrite) /\ ~Some(IsPush)

\* C11 amended: without a descriptor, --owner is used and GET /user is not
\* issued; else, only with a credential resolved in this run, the login is
\* looked up and used, and a failed lookup ends the run with the
\* identity-lookup error; with no --owner and no credential the run fails
\* with the owner-unresolved error; no failure is followed by remote
\* configuration or push.
C11_OwnerPriority ==
    NoDescriptor =>
        /\ Truthy(args.owner) => owner = args.owner /\ ~Some(IsGet)
        /\ Some(IsGet) => ~Truthy(args.owner) /\ Truthy(token) /\ ~args.skip_create
        /\ (~Truthy(args.owner) /\ Truthy(token)) =>
             /\ Count(IsGet) = 1
             /\ IF BadResponse("GET /user", { 200 }) \/ ~Truthy(owner)
                THEN outcome = "AuthLookupError"
                ELSE owner = "carol"
        /\ (~Truthy(args.owner) /\ ~Truthy(token)) =>
             outcome = "OwnerUnresolvedError"
        /\ outcome \in { "OwnerUnresolvedError", "AuthLookupError" } =>
             ~Some(IsRemoteWrite) /\ ~Some(IsPush) /\ srHist = <<>>
        /\ srHist # <<>> =>
             /\ Truthy(owner)
             /\ remote_url = SynthUrl(owner, RepoName(args))

C11_Witness ==
    /\ NoDescriptor
    /\ Created422
    /\ ~Truthy(args.owner)
    /\ owner = "carol"
    /\ RemoteConfigured


IsEnvRead(c) == c[1] = "environ.get"

C12_WriteOnceState ==
    /\ Count(IsEnvWrite) <= 1
    /\ \A i \in 1 .. Len(calls) :
         IsEnvWrite(calls[i]) =>
            /\ NoneAfter(i, IsEnvWrite)
            /\ NoneAfter(i, IsLoad) /\ NoneAfter(i, IsGh) /\ NoneAfter(i, IsGetpass)
            /\ IsGh(calls[i - 1]) \/ IsGetpass(calls[i - 1])
    /\ Some(IsEnvWrite) => Str(EnvGet(environ)) = token
    /\ Count(IsEnvRead) <= 2
    /\ Count(IsLoad) <= 1 /\ Count(IsGh) <= 1 /\ Count(IsGetpass) <= 1
    /\ \A i \in 1 .. Len(calls) :
         IsEnvRead(calls[i]) => i = 1 \/ (i = 3 /\ IsLoad(calls[2]))
    /\ \A k \in 1 .. Len(calls) :
         IsPost(calls[k]) \/ IsGet(calls[k]) =>
            /\ Truthy(token)
            /\ calls[k][3] = token
            /\ \A m \in 1 .. Len(calls) : IsCredentialSource(calls[m]) => m < k

\* C12: within one run the resolver writes the token variable at most once
\* and never again after that write; the credential is resolved at most once
\* and that one token is the bearer of every API call of the run.
C12_WriteOnceResolveOnce ==
    /\ []C12_WriteOnceState
    /\ [][Some(IsEnvWrite) => environ' = environ]_vars
    /\ [][token # NONE => token' = token]_vars

C12_Witness ==
    /\ Some(IsEnvWrite)
    /\ Some(IsPost)
    /\ Some(IsGet)
    /\ outcome = "ok"


\* the tokens of the input universes, trimmed, without the empty one
TrimmedTokens == { "tokA", "tokB", "tokL", "tokG" }

\* C13: the resolver returns a token that is non-empty after trimming or
\* fails with the credential-missing error; a gh helper that exits non-zero,
\* raises or prints only whitespace is "not found" and surfaces no error; an
\* empty or whitespace-only prompt entry is "not found"; no API request
\* carries an empty bearer token.
C13_TokenNonEmptyOrMissing ==
    /\ token # NONE => token \in TrimmedTokens
    /\ (~args.skip_create /\ pc \notin { "start", "token_env", "token_shared",
                                         "token_gh", "token_prompt" }) =>
         \/ token \in TrimmedTokens
         \/ pc = "done" /\ outcome = "CredentialMissingError" /\ token = NONE
    /\ (Some(IsGh) /\ world.gh.kind \in { "raise", "nonzero" }) =>
         /\ token # "tokG"
         /\ pc = "token_prompt" \/ Some(IsGetpass) \/ outcome = "CredentialMissingError"
    /\ (Some(IsGh) /\ world.gh.val = << "\n" >>) =>
         pc = "token_prompt" \/ Some(IsGetpass) \/ outcome = "CredentialMissingError"
    /\ (Some(IsGetpass) /\ world.typed \in { <<>>, << " " >> }) =>
         /\ token = NONE
         /\ outcome = "CredentialMissingError"
         /\ ~Some(IsEnvWrite)
    /\ \A k \in 1 .. Len(calls) :
         IsPost(calls[k]) \/ IsGet(calls[k]) => calls[k][3] \in TrimmedTokens

C13_Witness ==
    /\ world.gh.kind = "nonzero"
    /\ Some(IsGetpass)
    /\ token = "tokB"
    /\ Some(IsPost)


\* C14: in every run that reaches remote configuration the URL handed to
\* git remote add/set-url is a non-empty well-formed URL: the clone_url of
\* the 201 response, or https://github.com/<owner>/<repo>.git with a
\* non-empty owner; this for every 201 body, also an empty one or one
\* without clone_url or owner.login.
C14_RemoteUrlWellFormed ==
    \A i \in 1 .. Len(srHist) :
        LET u == srHist[i].url
        IN /\ u # NONE
           /\ u # ""
           /\ \/ DictTruthy(repo_info) /\ u = repo_info.clone_url
              \/ /\ ~DictTruthy(repo_info)
                 /\ Truthy(owner)
                 /\ u = "https://github.com/" \o owner \o "/" \o RepoName(args) \o ".git"


\* C15 as stated: with --skip-create no credential source is consulted and
\* no HTTP request is issued; a run with --skip-create and no --owner always
\* fails with the owner-unresolved error, even with a token in the variable.
C15_SkipCreateAlwaysUnresolved ==
    args.skip_create =>
        /\ ~Some(IsCredentialSource)
        /\ ~Some(IsPost) /\ ~Some(IsGet)
        /\ (~Truthy(args.owner) /\ pc = "done") => outcome = "OwnerUnresolvedError"

\* C15 amended: with --skip-create no credential source is consulted and no
\* HTTP request is issued; a run with --skip-create and no --owner never
\* configures a remote or pushes and always fails: with the owner-unresolved
\* error once git init and the clean-tree check have passed, with the error
\* of that earlier step otherwise, even with a token in the variable.
C15_SkipCreateNeverAsksGitHub ==
    args.skip_create =>
        /\ ~Some(IsCredentialSource) /\ ~Some(IsEnvWrite)
        /\ ~Some(IsPost) /\ ~Some(IsGet)
        /\ responses = <<>>
        /\ token = NONE
        /\ environ = world.env
        /\ ~Truthy(args.owner) =>
             /\ ~Some(IsRemoteWrite) /\ ~Some(IsPush) /\ srHist = <<>>
             /\ pc \in { "start", "ensure_git_repo", "ensure_clean_tree",
                         "create_repo", "determine_url", "done" }
             /\ pc = "done" =>
                  /\ outcome \in { "ExecutionError", "WorkingTreeDirtyError",
                                   "OwnerUnresolvedError" }
                  /\ (StatusReturned /\ world.tree = <<>>) =>
                       outcome = "OwnerUnresolvedError"
                  /\ outcome = "WorkingTreeDirtyError" => world.tree # <<>>
                  /\ outcome = "ExecutionError" =>
                       IsInit(calls[Len(calls)]) \/ IsStatus(calls[Len(calls)])

C15_Witness ==
    /\ args.skip_create
    /\ ~Truthy(args.owner)
    /\ world.env = << << "tokA" >> >>
    /\ StatusReturned
    /\ outcome = "OwnerUnresolvedError"


Printed(kind) == \E i \in 1 .. Len(stdout) : stdout[i][1] = kind

\* C16: a run that invokes git push has, in this order, passed the
\* clean-tree check and configured the named remote to the resolved URL;
\* push is invoked at most once, names the configured remote and the branch,
\* and the success line is printed only after push has exited zero.
C16_PushComesLast ==
    /\ Some(IsPush) =>
         /\ Count(IsPush) = 1
         /\ ~args.dry_run
         /\ pc = "done"
         /\ calls[Len(calls)] = << "git", "push", "-u", args.remote_name, "main" >>
         /\ world.tree = <<>>
         /\ RemoteConfigured
         /\ UrlsOf(remotes, args.remote_name) = { remote_url }
         /\ \E i \in 1 .. Len(calls), j \in 1 .. Len(calls) :
              /\ i < j /\ j = Len(calls) - 1
              /\ IsStatus(calls[i])
              /\ IsRemoteWrite(calls[j])
              /\ calls[j][4] = args.remote_name
              /\ calls[j][5] = remote_url
         /\ outcome \in { "ok", "ExecutionError" }
         /\ outcome = "ExecutionError" => stdout = <<>>
    /\ Printed("pushed") =>
         /\ Some(IsPush)
         /\ outcome = "ok"
         /\ stdout = << << "pushed", remote_url, "main" >> >>

C16_Witness ==
    /\ Some(IsPush)
    /\ Printed("pushed")
    /\ srHist[1].sub = "add"
    /\ ~args.skip_create

====
